---- MODULE Spec2Model ----
(***************************************************************************)
(* Shamir secret sharing over GF(2^8) (rust-shamir): the field engine of   *)
(* src/gf.rs and the split / reconstruct protocol of src/lib.rs.           *)
(***************************************************************************)
EXTENDS Integers, Sequences, FiniteSets, TLC

VARIABLES
    op,        \* the operation performed last
    fa,        \* field engine: the receiver `self`
    fx,        \* field engine: the argument `x`
    fr,        \* field engine: the returned element
    t,         \* construct_shares: threshold
    n,         \* construct_shares: number of participants
    secret,    \* construct_shares: the secret bytes
    coeff,     \* the bytes rng.gen() returned, one row of n per secret byte
    shares,    \* what construct_shares returned
    picked,    \* the participants whose share sets are handed on
    supplied,  \* the list of share sets handed to reconstruct
    result,    \* what reconstruct returned
    invArgs    \* the elements inv was applied to inside lagrange_interpolate

vars == << op, fa, fx, fr, t, n, secret, coeff, shares, picked, supplied,
           result, invArgs >>

shareVars == << t, n, secret, coeff, shares, picked, supplied, result, invArgs >>

(***************************************************************************)
(* Bounds of the model.                                                    *)
(***************************************************************************)
MaxT == 3          \* largest threshold tried
MaxN == 3          \* largest participant count tried
MaxLen == 2        \* longest secret tried
MaxSmallExp == 4   \* exponents 0..MaxSmallExp are tried besides the top ones

Byte == 0 .. 255
Nibble == 0 .. 15

Max(a, b) == IF a >= b THEN a ELSE b

\* sequencing of a computation: v is evaluated first, then e (which uses v)
Seq2(v, e) == IF v = v THEN e ELSE e

(***************************************************************************)
(* Bitwise operators of the machine integers (u8 / u16).                   *)
(***************************************************************************)
RECURSIVE XorBits(_, _)
XorBits(a, b) ==
    IF a = 0 THEN b
    ELSE IF b = 0 THEN a
    ELSE ((a + b) % 2) + 2 * XorBits(a \div 2, b \div 2)

RECURSIVE AndBits(_, _)
AndBits(a, b) ==
    IF a = 0 \/ b = 0 THEN 0
    ELSE ((a % 2) * (b % 2)) + 2 * AndBits(a \div 2, b \div 2)

RECURSIVE OrBits(_, _)
OrBits(a, b) ==
    IF a = 0 THEN b
    ELSE IF b = 0 THEN a
    ELSE (IF a % 2 = 1 \/ b % 2 = 1 THEN 1 ELSE 0) + 2 * OrBits(a \div 2, b \div 2)

XorNibble == [a \in Nibble |-> [b \in Nibble |-> XorBits(a, b)]]
AndNibble == [a \in Nibble |-> [b \in Nibble |-> AndBits(a, b)]]
OrNibble == [a \in Nibble |-> [b \in Nibble |-> OrBits(a, b)]]

RECURSIVE BitXor(_, _)
BitXor(a, b) ==
    IF a = 0 THEN b
    ELSE IF b = 0 THEN a
    ELSE XorNibble[a % 16][b % 16] + 16 * BitXor(a \div 16, b \div 16)

RECURSIVE BitAnd(_, _)
BitAnd(a, b) ==
    IF a = 0 \/ b = 0 THEN 0
    ELSE AndNibble[a % 16][b % 16] + 16 * BitAnd(a \div 16, b \div 16)

RECURSIVE BitOr(_, _)
BitOr(a, b) ==
    IF a = 0 THEN b
    ELSE IF b = 0 THEN a
    ELSE OrNibble[a % 16][b % 16] + 16 * BitOr(a \div 16, b \div 16)

\* (0 as u16).wrapping_sub(b)
WrappingSub16(a, b) == (a - b + 65536) % 65536

\* u8 shifts: bits shifted out are dropped
Shl8(a, k) == (a * (2 ^ k)) % 256
Shr8(a, k) == a \div (2 ^ k)

\* !mask on a u8
Not8(a) == 255 - a

(***************************************************************************)
(* The field engine, GfOps for GF256e.                                     *)
(***************************************************************************)
ReductionPoly == 283    \* 0x11b

MulRounds == 8

InvRounds == 6

ExpRounds == 255

add(self, x) == BitXor(self, x)

sub(self, x) == BitXor(self, x)

\* one round of the loop of mul, on the triple <<yj, xj, z>>
MulStep(s) ==
    LET yj == s[1]
        xj == s[2]
        z  == s[3]
        ys == (yj * 2) % 65536
    IN << BitXor(ys, BitAnd(WrappingSub16(0, ys \div 256), ReductionPoly)),
          xj \div 2,
          BitXor(z, BitAnd(WrappingSub16(0, BitAnd(xj, 1)), yj)) >>

RECURSIVE MulLoop(_, _)
MulLoop(k, s) ==
    IF k = 0 THEN s
    ELSE LET s1 == MulStep(s)
         IN Seq2(s1, MulLoop(k - 1, s1))

mul(self, x) ==
    LET s0 == << self, x, 0 >>
    IN Seq2(s0, MulLoop(MulRounds, s0)[3] % 256)

\* the round in the other order: square, then multiply by self
InvStepSquareFirst(self, j) ==
    LET j1 == mul(j, j)
    IN mul(j1, self)

\* one round of the loop of inv: multiply by self, then square
InvStep(self, j) ==
    LET j1 == mul(j, self)
    IN mul(j1, j1)

RECURSIVE InvLoop(_, _, _)
InvLoop(k, self, j) ==
    IF k = 0 THEN j
    ELSE LET j2 == InvStep(self, j)
         IN Seq2(j2, InvLoop(k - 1, self, j2))

inv(self) == InvLoop(InvRounds, self, mul(self, self))

div(self, x) == mul(self, inv(x))

\* the two broadcasts of exp: every bit set as soon as one bit is set
ExpMask(i, x) ==
    LET m0 == BitXor(i, x)
        l  == BitOr(Shl8(m0, 1), BitOr(Shl8(m0, 2), BitOr(Shl8(m0, 3),
              BitOr(Shl8(m0, 4), BitOr(Shl8(m0, 5), BitOr(Shl8(m0, 6),
              Shl8(m0, 7)))))))
        m1 == BitOr(m0, l)
        r  == BitOr(Shr8(m1, 1), BitOr(Shr8(m1, 2), BitOr(Shr8(m1, 3),
              BitOr(Shr8(m1, 4), BitOr(Shr8(m1, 5), BitOr(Shr8(m1, 6),
              Shr8(m1, 7)))))))
    IN BitOr(m1, r)

\* one round of the loop of exp for candidate i, on the pair <<r, q>>
ExpStep(i, self, x, s) ==
    << mul(s[1], self), BitOr(s[2], BitAnd(s[1], Not8(ExpMask(i, x)))) >>

\* the rounds lo .. hi-1 of the loop of exp, in order (the range is halved
\* to keep the evaluation shallow)
RECURSIVE ExpLoop(_, _, _, _, _)
ExpLoop(lo, hi, self, x, s) ==
    IF hi <= lo THEN s
    ELSE IF hi = lo + 1 THEN ExpStep(lo, self, x, s)
    ELSE LET mid == (lo + hi) \div 2
             sm  == ExpLoop(lo, mid, self, x, s)
         IN Seq2(sm, ExpLoop(mid, hi, self, x, sm))

exp(self, x) == ExpLoop(0, ExpRounds, self, x, << 1, 0 >>)[2]

(***************************************************************************)
(* Results and errors of the sharing engine.                               *)
(***************************************************************************)
NoShares == [tag |-> "None", err |-> "", val |-> << >>]

Ok(v) == [tag |-> "Ok", err |-> "", val |-> v]

Err(e) == [tag |-> "Err", err |-> e, val |-> << >>]

\* an index out of bounds: the thread panics
Panic == [tag |-> "Panic", err |-> "index out of bounds", val |-> << >>]

SharePoint(x, y) == [x |-> x, y |-> y]

(***************************************************************************)
(* The inputs tried.                                                       *)
(***************************************************************************)
TestT == 3    \* the (t, n) of the tests of lib.rs
TestN == 5

SecretBytes == {0, 202}

Secrets == UNION { [1 .. len -> SecretBytes] : len \in 0 .. MaxLen }

\* rand::thread_rng(): the streams of bytes tried; draw k of stream
\* <<a, b>> is a + b * k (mod 256)
RngSeeds == { << 0, 0 >>, << 83, 0 >>, << 0, 83 >>, << 1, 2 >> }

RngGen(seed, k) == (seed[1] + seed[2] * k) % 256

\* the draws of one construct_shares call: n per secret byte, in call order
RngRows(seed, len, nn) ==
    [b \in 1 .. len |-> [i \in 1 .. nn |-> RngGen(seed, (b - 1) * nn + (i - 1))]]

(***************************************************************************)
(* Values of exp, mul and div on the operands the sharing engine uses,     *)
(* computed once by the field engine.                                      *)
(***************************************************************************)
XTop == Max(MaxN, TestN)
DTop == Max(MaxT, TestT)

\* the elements the x coordinates and their differences range over
DiffTop == CHOOSE p \in {1, 3, 7, 15, 31, 63, 127, 255} :
               /\ p >= XTop
               /\ \A q \in {1, 3, 7, 15, 31, 63, 127, 255} : q >= XTop => p <= q

ExpMemo == [x \in 0 .. XTop |-> [d \in 0 .. DTop |-> exp(x, d)]]

PowerValues == { ExpMemo[x][d] : x \in 0 .. XTop, d \in 0 .. DTop }

MulMemo == [e \in PowerValues |-> [c \in Byte |-> mul(c, e)]]

DivMemo == [a \in 0 .. DiffTop |-> [b \in 0 .. DiffTop |-> div(a, b)]]

(***************************************************************************)
(* share_value and construct_shares.                                       *)
(***************************************************************************)
SaturatingSub(a, b) == IF a >= b THEN a - b ELSE 0

\* the degree counted from t instead of t - 1
CoeffDegreeFromT(tt, i) == Max(SaturatingSub(tt, i), 1)

\* the degree of coefficient i (from 0): cmp::max((t - 1).saturating_sub(i), 1)
CoeffDegree(tt, i) == Max(SaturatingSub(tt - 1, i), 1)

\* the x without the + 1: the first participant is given x = 0
ShareXFromZero(i) == i

\* the x of participant i (from 0): i as GF256e + 1
ShareX(i) == i + 1

\* m.0.mul(x.exp(m.1))
Term(c, x, d) == MulMemo[ExpMemo[x][d]][c]

\* the fold of p over the coefficients i .. n of row
RECURSIVE PolyFold(_, _, _, _, _)
PolyFold(i, row, tt, x, y) ==
    IF i > Len(row) THEN y
    ELSE PolyFold(i + 1, row, tt, x,
                  add(y, Term(row[i], x, CoeffDegree(tt, i - 1))))

\* the closure p of share_value
p(row, tt, secret_byte, x) == add(PolyFold(1, row, tt, x, 0), secret_byte)

share_value(tt, nn, secret_byte, row) ==
    [i \in 1 .. nn |->
        SharePoint(ShareX(i - 1), p(row, tt, secret_byte, ShareX(i - 1)))]

\* the guard without its test of n
TorNisZeroOnlyT(tt, nn) == tt = 0

\* the guard of construct_shares
TorNisZero(tt, nn) == tt = 0 \/ nn = 0

\* the fold pushing into the share sets from the last one down
AccumulateReversed(nn, share_bytes) ==
    [i \in 1 .. nn |->
        [b \in 1 .. Len(share_bytes) |-> share_bytes[b][nn + 1 - i]]]

\* the fold of construct_shares: participant i gets point i of every byte
Accumulate(nn, share_bytes) ==
    [i \in 1 .. nn |-> [b \in 1 .. Len(share_bytes) |-> share_bytes[b][i]]]

construct_shares(tt, nn, sec, rows) ==
    IF TorNisZero(tt, nn) THEN Err("TorNisZero")
    ELSE Ok(Accumulate(nn,
               [b \in 1 .. Len(sec) |-> share_value(tt, nn, sec[b], rows[b])]))

(***************************************************************************)
(* lagrange_interpolate, reconstruct_value and reconstruct.                *)
(***************************************************************************)
\* the filter on the identity of the point instead of its x
KeepsOtherIndex(points, j, m) == m # j

\* the filter of lagrange_interpolate: is point m part of the product of j
Keeps(points, j, m) == points[m].x # points[j].x

\* the inner fold of lagrange_interpolate over the points m .. of the list
RECURSIVE PhiFold(_, _, _, _, _)
PhiFold(m, points, j, x, phi) ==
    IF m > Len(points) THEN phi
    ELSE PhiFold(m + 1, points, j, x,
                 IF Keeps(points, j, m)
                 THEN mul(phi, DivMemo[sub(x, points[m].x)]
                                      [sub(points[j].x, points[m].x)])
                 ELSE phi)

\* the outer fold of lagrange_interpolate over the points j .. of the list
RECURSIVE LagrangeFold(_, _, _, _)
LagrangeFold(j, points, x, y) ==
    IF j > Len(points) THEN y
    ELSE LET phi == PhiFold(1, points, j, x, 1)
             y1  == add(y, mul(points[j].y, phi))
         IN Seq2(y1, LagrangeFold(j + 1, points, x, y1))

lagrange_interpolate(points, x) == LagrangeFold(1, points, x, 0)

\* the elements inv is applied to by the div of lagrange_interpolate
LagrangeInvArgs(points) ==
    { sub(points[j].x, points[m].x) :
        << j, m >> \in { q \in (1 .. Len(points)) \X (1 .. Len(points)) :
                           Keeps(points, q[1], q[2]) } }

reconstruct_value(points) == lagrange_interpolate(points, 0)

\* the length check missing the last share set
all_same_len_but_last(list, sz) ==
    \A s \in 1 .. (Len(list) - 1) : Len(list[s]) = sz

\* shares.iter().all(|share| share.len() == sz)
all_same_len(list, sz) == \A s \in 1 .. Len(list) : Len(list[s]) = sz

\* shares.iter().map(|share| &share[i])
ByteShares(list, i) == [s \in 1 .. Len(list) |-> list[s][i]]

reconstruct(list) ==
    IF Len(list) = 0 THEN Panic                       \* shares[0]
    ELSE LET sz == Len(list[1])
         IN IF ~all_same_len(list, sz) THEN Err("MissingShareForByte")
            ELSE IF \E s \in 1 .. Len(list) : Len(list[s]) < sz
            THEN Panic                                \* &share[i]
            ELSE Ok([i \in 1 .. sz |-> reconstruct_value(ByteShares(list, i))])

\* the elements inv is applied to during reconstruct(list)
ReconstructInvArgs(list) ==
    IF Len(list) = 0 \/ ~all_same_len(list, Len(list[1])) THEN {}
    ELSE UNION { LagrangeInvArgs(ByteShares(list, i)) : i \in 1 .. Len(list[1]) }

(***************************************************************************)
(* Operations of the field engine.                                         *)
(***************************************************************************)
\* operands tried for the binary operations; 0xb6, 0x53, 0xcc, 0x12 are the
\* operands of the tests of gf.rs
FieldSample == {0, 1, 2, 18, 83, 182, 204, 255}
ExpBases == {0, 1, 2, 18, 83}
ExpExponents == (0 .. MaxSmallExp) \cup {254, 255}

InitShare ==
    /\ t = 0
    /\ n = 0
    /\ secret = << >>
    /\ coeff = << >>
    /\ shares = NoShares
    /\ picked = << >>
    /\ supplied = << >>
    /\ result = NoShares
    /\ invArgs = {}

Init ==
    /\ op = "init"
    /\ fa = 0
    /\ fx = 0
    /\ fr = 0
    /\ InitShare

Add ==
    \E a \in FieldSample, b \in FieldSample :
        /\ op = "init"
        /\ op' = "add" /\ fa' = a /\ fx' = b /\ fr' = add(a, b)
        /\ UNCHANGED shareVars

Sub ==
    \E a \in FieldSample, b \in FieldSample :
        /\ op = "init"
        /\ op' = "sub" /\ fa' = a /\ fx' = b /\ fr' = sub(a, b)
        /\ UNCHANGED shareVars

Mul ==
    \E a \in FieldSample, b \in FieldSample :
        /\ op = "init"
        /\ op' = "mul" /\ fa' = a /\ fx' = b /\ fr' = mul(a, b)
        /\ UNCHANGED shareVars

Div ==
    \E a \in FieldSample, b \in FieldSample :
        /\ op = "init"
        /\ op' = "div" /\ fa' = a /\ fx' = b /\ fr' = div(a, b)
        /\ UNCHANGED shareVars

Inv ==
    \E a \in Byte :
        /\ op = "init"
        /\ op' = "inv" /\ fa' = a /\ fx' = 0 /\ fr' = inv(a)
        /\ UNCHANGED shareVars

Exp ==
    \E a \in ExpBases, k \in ExpExponents :
        /\ op = "init"
        /\ op' = "exp" /\ fa' = a /\ fx' = k /\ fr' = exp(a, k)
        /\ UNCHANGED shareVars

NextField == Add \/ Sub \/ Mul \/ Div \/ Inv \/ Exp

SpecField == Init /\ [][NextField]_vars

(***************************************************************************)
(* Operations of the sharing engine.                                       *)
(***************************************************************************)
\* the subsets of the participants, each as the ascending list of its members
RECURSIVE Ascending(_)
Ascending(S) ==
    IF S = {} THEN << >>
    ELSE LET least == CHOOSE a \in S : \A b \in S : a <= b
         IN << least >> \o Ascending(S \ {least})

\* the share sets of the participants picks, share set cut (if any) without
\* its last point
Hand(val, picks, cut) ==
    [k \in 1 .. Len(picks) |->
        IF k = cut THEN SubSeq(val[picks[k]], 1, Len(val[picks[k]]) - 1)
        ELSE val[picks[k]]]

\* construct_shares(t, n, secret); the rng is read by share_value only
ConstructShares ==
    \E tt \in 0 .. MaxT, nn \in 0 .. MaxN, sec \in Secrets, seed \in RngSeeds :
        /\ op = "init"
        /\ op' = "construct_shares"
        /\ t' = tt
        /\ n' = nn
        /\ secret' = sec
        /\ coeff' = IF TorNisZero(tt, nn) THEN << >>
                    ELSE RngRows(seed, Len(sec), nn)
        /\ shares' = construct_shares(tt, nn, sec, coeff')
        /\ UNCHANGED << fa, fx, fr, picked, supplied, result, invArgs >>

\* reconstruct on some of the share sets returned, as returned
Reconstruct ==
    \E S \in SUBSET (1 .. Len(shares.val)) :
        /\ op = "construct_shares"
        /\ op' = "reconstruct"
        /\ picked' = Ascending(S)
        /\ supplied' = Hand(shares.val, picked', 0)
        /\ result' = reconstruct(supplied')
        /\ invArgs' = ReconstructInvArgs(supplied')
        /\ UNCHANGED << fa, fx, fr, t, n, secret, coeff, shares >>

\* reconstruct on a list in which one share set occurs twice
ReconstructDuplicate ==
    \E S \in SUBSET (1 .. Len(shares.val)) : \E d \in S :
        /\ op = "construct_shares"
        /\ op' = "reconstruct"
        /\ picked' = Ascending(S) \o << d >>
        /\ supplied' = Hand(shares.val, picked', 0)
        /\ result' = reconstruct(supplied')
        /\ invArgs' = ReconstructInvArgs(supplied')
        /\ UNCHANGED << fa, fx, fr, t, n, secret, coeff, shares >>

\* reconstruct on a list in which one share set lacks its last point
ReconstructTruncated ==
    \E S \in SUBSET (1 .. Len(shares.val)) : \E c \in 1 .. Cardinality(S) :
        /\ op = "construct_shares"
        /\ Len(secret) >= 1
        /\ op' = "reconstruct"
        /\ picked' = Ascending(S)
        /\ supplied' = Hand(shares.val, picked', c)
        /\ result' = reconstruct(supplied')
        /\ invArgs' = ReconstructInvArgs(supplied')
        /\ UNCHANGED << fa, fx, fr, t, n, secret, coeff, shares >>

Next == ConstructShares \/ Reconstruct \/ ReconstructDuplicate \/ ReconstructTruncated

Spec == Init /\ [][Next]_vars

(***************************************************************************)
(* The scenario of test_share_construct_reconstruct_shares_omitting:       *)
(* (t, n) = (3, 5) and share sets dropped before reconstruct.              *)
(***************************************************************************)
ConstructTest ==
    \E sec \in Secrets \ {<< >>}, seed \in RngSeeds :
        /\ op = "init"
        /\ op' = "construct_shares"
        /\ t' = TestT
        /\ n' = TestN
        /\ secret' = sec
        /\ coeff' = RngRows(seed, Len(sec), TestN)
        /\ shares' = construct_shares(TestT, TestN, sec, coeff')
        /\ UNCHANGED << fa, fx, fr, picked, supplied, result, invArgs >>

\* reconstruct after 2 or 3 of the 5 share sets were dropped
ReconstructOmitting ==
    \E S \in SUBSET (1 .. Len(shares.val)) :
        /\ op = "construct_shares"
        /\ Cardinality(S) \in {TestN - 2, TestN - 3}
        /\ op' = "reconstruct"
        /\ picked' = Ascending(S)
        /\ supplied' = Hand(shares.val, picked', 0)
        /\ result' = reconstruct(supplied')
        /\ invArgs' = ReconstructInvArgs(supplied')
        /\ UNCHANGED << fa, fx, fr, t, n, secret, coeff, shares >>

NextOmit == ConstructTest \/ ReconstructOmitting

SpecOmit == Init /\ [][NextOmit]_vars

(***************************************************************************)
(* What fewer than t participants hold: one secret byte is shared and the  *)
(* share sets of some participants, fewer than t, are handed out.          *)
(***************************************************************************)
\* the pairs (t, n) tried
SecrecyParams == { << 2, 1 >>, << 3, 1 >>, << 2, 2 >>, << 3, 2 >>, << 4, 2 >> }

\* the secrets compared with the shared one
OtherSecretBytes == {1, 202, 255}

ConstructByte ==
    \E tn \in SecrecyParams, b \in SecretBytes, seed \in RngSeeds :
        /\ op = "init"
        /\ op' = "construct_shares"
        /\ t' = tn[1]
        /\ n' = tn[2]
        /\ secret' = << b >>
        /\ coeff' = RngRows(seed, 1, tn[2])
        /\ shares' = construct_shares(tn[1], tn[2], secret', coeff')
        /\ UNCHANGED << fa, fx, fr, picked, supplied, result, invArgs >>

\* fewer than t of the participants pool their share sets
Distribute ==
    \E S \in SUBSET (1 .. Len(shares.val)) :
        /\ op = "construct_shares"
        /\ Cardinality(S) < t
        /\ op' = "distribute"
        /\ picked' = Ascending(S)
        /\ supplied' = Hand(shares.val, picked', 0)
        /\ UNCHANGED << fa, fx, fr, t, n, secret, coeff, shares, result, invArgs >>

NextSecrecy == ConstructByte \/ Distribute

SpecSecrecy == Init /\ [][NextSecrecy]_vars

(***************************************************************************)
(* Field engine properties.                                                *)
(***************************************************************************)
\* a multiplied by itself k times
RECURSIVE PowerFrom(_, _, _)
PowerFrom(acc, a, k) ==
    IF k = 0 THEN acc
    ELSE IF k = 1 THEN mul(acc, a)
    ELSE LET half == PowerFrom(acc, a, k \div 2)
         IN Seq2(half, PowerFrom(half, a, k - (k \div 2)))

Power(a, k) == PowerFrom(1, a, k)

\* C8: for every element a and every exponent k in 0..255, 255 included,
\* a.exp(k) is a multiplied by itself k times (1 for k = 0, a for k = 1).
C8_ExpIsRepeatedMul ==
    op = "exp" =>
        /\ fr = Power(fa, fx)
        /\ (fx = 0 => fr = 1)
        /\ (fx = 1 => fr = fa)

\* C9: for every nonzero a, a.mul(a.inv()) == 1.
C9_InvIsInverse ==
    (op = "inv" /\ fa # 0) => mul(fa, fr) = 1

C9_Witness == op = "inv" /\ fa = 204 /\ fr # 0 /\ mul(fa, fr) = 1

\* sanity: the concrete vectors of the tests of gf.rs
FieldVectors ==
    /\ (op = "mul" /\ fa = 182 /\ fx = 83) => fr = 54
    /\ (op = "exp" /\ fa = 2 /\ fx = 4) => fr = 16
    /\ (op = "exp" /\ fx < 255) => fr = Power(fa, fx)
    /\ (op = "div" /\ fx # 0) => mul(fr, fx) = fa
(***************************************************************************)
(* Sharing engine properties.                                              *)
(***************************************************************************)
\* the list handed to reconstruct holds share sets of distinct participants,
\* exactly as construct_shares returned them
Genuine ==
    /\ shares.tag = "Ok"
    /\ \A a, b \in 1 .. Len(picked) : a # b => picked[a] # picked[b]
    /\ supplied = Hand(shares.val, picked, 0)

DuplicateSupplied ==
    \E a, b \in 1 .. Len(picked) : a # b /\ picked[a] = picked[b]

DifferingLengths ==
    \E a, b \in 1 .. Len(supplied) : Len(supplied[a]) # Len(supplied[b])

\* C1: for 1 <= t <= n, reconstruct on all n share sets, and on any t of
\* them, returns Ok(secret), whatever the secret and the draws.
C1_RoundTrip ==
    (/\ op = "reconstruct"
     /\ 1 <= t /\ t <= n
     /\ Genuine
     /\ Len(picked) \in {t, n})
    => (result.tag = "Ok" /\ result.val = secret)

\* C3: construct_shares and reconstruct end in Ok or in one of the two error
\* kinds, never in an uncontrolled abort, whatever the input.
C3_NoAbort ==
    /\ shares.tag \in {"None", "Ok", "Err"}
    /\ shares.tag = "Err" => shares.err = "TorNisZero"
    /\ result.tag \in {"None", "Ok", "Err"}
    /\ result.tag = "Err" => result.err = "MissingShareForByte"

\* C4: construct_shares returns Err(TorNisZero) exactly when t = 0 or
\* n = 0, and Ok for every t >= 1 and n >= 1.
C4_ThresholdValidation ==
    op = "construct_shares" =>
        /\ (shares = Err("TorNisZero")) <=> (t = 0 \/ n = 0)
        /\ (t >= 1 /\ n >= 1) => shares.tag = "Ok"

C4_Witness ==
    /\ op = "construct_shares"
    /\ t >= 1 /\ n = 0 /\ Len(secret) >= 1
    /\ shares = Err("TorNisZero")

\* C5: reconstruct on share sets that are not all of the same length returns
\* Err(MissingShareForByte) wherever the odd one stands; on a non-empty list
\* of share sets of equal length it returns Ok.
C5_LengthMismatch ==
    (op = "reconstruct" /\ Len(supplied) >= 1) =>
        IF DifferingLengths
        THEN result = Err("MissingShareForByte")
        ELSE result.tag = "Ok"

C5_Witness ==
    /\ op = "reconstruct"
    /\ Len(supplied) = 3
    /\ Len(supplied[1]) = Len(supplied[2])
    /\ Len(supplied[3]) # Len(supplied[1])
    /\ result = Err("MissingShareForByte")

\* C6: for t >= 1 and n >= 1 construct_shares returns exactly n share sets;
\* share set i holds len(secret) points, in byte order, all with x = i, so no
\* point has x = 0.
C6_ShareShape ==
    (op = "construct_shares" /\ t >= 1 /\ n >= 1) =>
        /\ shares.tag = "Ok"
        /\ Len(shares.val) = n
        /\ \A i \in 1 .. n :
            /\ Len(shares.val[i]) = Len(secret)
            /\ \A b \in 1 .. Len(secret) :
                /\ shares.val[i][b].x = i
                /\ shares.val[i][b].x # 0
                /\ shares.val[i][b].y = p(coeff[b], t, secret[b], i)

C6_Witness ==
    /\ op = "construct_shares"
    /\ t = 2 /\ n = 3 /\ Len(secret) = 2
    /\ shares.tag = "Ok"
    /\ shares.val[3][2].x = 3
    /\ shares.val[3][1].y # shares.val[3][2].y

\* C10 as stated: when two of the supplied points have the same x, the
\* interpolation divides by the zero element (inv is evaluated on 0).
C10_DuplicateDividesByZero ==
    (/\ op = "reconstruct"
     /\ result.tag = "Ok"
     /\ Len(result.val) >= 1
     /\ DuplicateSupplied)
    => 0 \in invArgs

\* C10 amended: the factor of point j is the product over the points m with
\* m.x # j.x, so inv is applied to the differences of distinct x only and
\* never to 0, duplicates supplied or not.
C10_NoZeroDivision ==
    op = "reconstruct" =>
        /\ 0 \notin invArgs
        /\ \A i \in 1 .. (IF result.tag = "Ok" THEN Len(result.val) ELSE 0) :
             \A a, b \in 1 .. Len(supplied) :
                supplied[a][i].x # supplied[b][i].x
                => sub(supplied[a][i].x, supplied[b][i].x) \in invArgs

C10_Witness ==
    /\ op = "reconstruct"
    /\ result.tag = "Ok"
    /\ Len(result.val) >= 1
    /\ DuplicateSupplied
    /\ invArgs # {}
    /\ 0 \notin invArgs

\* sanity: from threshold 2 on the round trip holds
RoundTripFromTwo ==
    (/\ op = "reconstruct"
     /\ 2 <= t /\ t <= n
     /\ Genuine
     /\ Len(picked) >= t)
    => (result.tag = "Ok" /\ result.val = secret)
\* C7 as stated: with t = 3 and n = 5, reconstruct on 2 of the 5 share sets
\* returns Ok and a byte sequence different from the secret, whatever the
\* draws.
C7_TwoSharesNeverRecover ==
    (/\ op = "reconstruct"
     /\ t = TestT /\ n = TestN
     /\ Len(secret) >= 1
     /\ Genuine
     /\ Len(picked) = 2)
    => (result.tag = "Ok" /\ result.val # secret)

\* C7 amended: reconstruct on 2 of the 5 share sets returns Ok, and the byte
\* it returns at a position equals the secret's byte exactly when the
\* coefficient of x^2 drawn for that byte is 0.
C7_TwoSharesRecoverIffLeadingZero ==
    (/\ op = "reconstruct"
     /\ t = TestT /\ n = TestN
     /\ Len(secret) >= 1
     /\ Genuine
     /\ Len(picked) = 2)
    => /\ result.tag = "Ok"
       /\ Len(result.val) = Len(secret)
       /\ \A b \in 1 .. Len(secret) :
            (result.val[b] = secret[b]) <=> (coeff[b][1] = 0)
       /\ (result.val = secret) <=> (\A b \in 1 .. Len(secret) : coeff[b][1] = 0)

C7_Witness ==
    /\ op = "reconstruct"
    /\ t = TestT /\ n = TestN
    /\ Genuine
    /\ Len(picked) = 2
    /\ Len(secret) = 2
    /\ result.tag = "Ok"
    /\ result.val[1] = secret[1]
    /\ result.val[2] # secret[2]

\* sanity: with 3 of the 5 share sets the secret comes back
ThreeSharesRecover ==
    (op = "reconstruct" /\ Len(picked) = 3 /\ Genuine)
    => (result.tag = "Ok" /\ result.val = secret)

\* C2: what fewer than t participants hold does not depend on the secret:
\* the share sets they got for the secret shared can also be what
\* construct_shares hands them for any other secret of the same length,
\* under some draw of the coefficients.
C2_FewerThanThresholdRevealNothing ==
    op = "distribute" =>
        \A b2 \in OtherSecretBytes :
            \E row \in [1 .. n -> Byte] :
                Hand(construct_shares(t, n, << b2 >>, << row >>).val, picked, 0)
                    = supplied

C2_Witness ==
    /\ op = "distribute"
    /\ t = 3 /\ n = 2
    /\ Len(picked) = 2
    /\ supplied[1][1].y # supplied[2][1].y
====
